---- MODULE Spec2Model ----
(***************************************************************************)
(* Model of ERL_Simulation.py: the Q-learning trainer, the shaped reward,  *)
(* the state discretizer, the simulated environment and the training loop. *)
(*                                                                         *)
(* Real numbers are fixed-point integers with three decimals (1.0 is Unit):*)
(* lux, temp, rewards and Q-values are all in thousandths.  A product or a *)
(* quotient is rounded to the nearest thousandth, as a float operation is  *)
(* rounded to the nearest float.  Every uniform random draw is a choice    *)
(* from a small set holding both ends and the middle of its interval.      *)
(***************************************************************************)
EXTENDS Integers, Sequences, FiniteSets, TLC

\* ------------------------------------------------------------ fixed point

Unit == 10 * 10 * 10

Abs(x) == IF x < 0 THEN -x ELSE x

Max2(x, y) == IF x >= y THEN x ELSE y

Min2(x, y) == IF x <= y THEN x ELSE y

\* a / b rounded to the nearest integer (b > 0), halves rounded up
RoundDiv(a, b) == (2 * a + b) \div (2 * b)

\* x * y of two fixed-point numbers
FMul(x, y) == RoundDiv(x * y, Unit)

RECURSIVE SqrtSearch(_, _, _)
SqrtSearch(n, lo, hi) ==
    IF lo >= hi THEN lo
    ELSE LET mid == (lo + hi + 1) \div 2
         IN  IF mid * mid <= n THEN SqrtSearch(n, mid, hi)
             ELSE SqrtSearch(n, lo, mid - 1)

\* floor of the square root of n, 0 <= n < 2^31
ISqrt(n) == SqrtSearch(n, 0, 46340)

\* math.sqrt(x**2 + y**2) of two fixed-point numbers, to two decimals
Norm2(x, y) ==
    LET xc == RoundDiv(x, 10)
        yc == RoundDiv(y, 10)
    IN  10 * ISqrt(xc * xc + yc * yc)

\* ---------------------------------------------- configuration (lines 71-104)

ALPHA == (5 * Unit) \div 100
GAMMA == (85 * Unit) \div 100
EPSILON_DEFAULT == (2 * Unit) \div 10
CRUCIAL_TD_THRESHOLD == 1 * Unit

ACTIVE_PENALTY == -((20 * Unit) \div 100)
IDLE_BONUS == (5 * Unit) \div 100

LUX_BINS == 3
TEMP_BINS == 3
STATE_SPACE_SIZE == LUX_BINS * TEMP_BINS

LUX_BIN_LOW_MAX == 100 * Unit
LUX_BIN_HIGH_MIN == 500 * Unit
TEMP_BIN_COLD_MAX == 18 * Unit
TEMP_BIN_HOT_MIN == 24 * Unit

TARGET_LUX == 300 * Unit
TARGET_TEMP == 21 * Unit
REWARD_MAX_DISTANCE == 10 * Unit

ACTION_SPACE_SIZE == 5
A_LIGHT_UP == 0
A_LIGHT_DOWN == 1
A_TEMP_UP == 2
A_TEMP_DOWN == 3
A_DO_NOTHING == 4

\* the "no previous state / action" value of run_simulation
NONE == -1

States == 0 .. (STATE_SPACE_SIZE - 1)
Actions == 0 .. (ACTION_SPACE_SIZE - 1)

\* ------------------------------------------------------ pure functions

\* LuxBin with the boundary readings left in the middle bin (< and > for <= and >=)
LuxBin_Strict(l) ==
    IF l < LUX_BIN_LOW_MAX THEN 0
    ELSE IF l > LUX_BIN_HIGH_MIN THEN 2
    ELSE 1

\* the lux bin of get_state
LuxBin(l) ==
    IF l <= LUX_BIN_LOW_MAX THEN 0
    ELSE IF l >= LUX_BIN_HIGH_MIN THEN 2
    ELSE 1

\* the temp bin of get_state
TempBin(t) ==
    IF t <= TEMP_BIN_COLD_MAX THEN 0
    ELSE IF t >= TEMP_BIN_HOT_MIN THEN 2
    ELSE 1

get_state(l, t) == (LuxBin(l) * TEMP_BINS) + TempBin(t)

\* R_Comfort: 1.0 - distance / REWARD_MAX_DISTANCE
Comfort(l, t) ==
    LET lux_error == RoundDiv(Abs(l - TARGET_LUX), 100)
        temp_error == Abs(t - TARGET_TEMP)
        distance == Norm2(lux_error, temp_error)
    IN  Unit - RoundDiv(distance * Unit, REWARD_MAX_DISTANCE)

\* R_Energy_Cost
EnergyCost(a) ==
    IF a /= NONE
    THEN IF a /= A_DO_NOTHING THEN ACTIVE_PENALTY ELSE IDLE_BONUS
    ELSE 0

\* Shaping without the S4 override
Shaping_NoS4(s, a) ==
    IF s < 3 /\ a = A_LIGHT_DOWN THEN -((3 * Unit) \div 10)
    ELSE IF s > 5 /\ a = A_LIGHT_UP THEN -((3 * Unit) \div 10)
    ELSE IF s \in {0, 3, 6} /\ a = A_TEMP_DOWN THEN -((3 * Unit) \div 10)
    ELSE IF s \in {2, 5, 8} /\ a = A_TEMP_UP THEN -((3 * Unit) \div 10)
    ELSE 0

\* Shaping whose zone penalties are independent and charged for every action
\* other than the one that corrects the zone, so that they add up
Shaping_Stacked(s, a) ==
    IF s = 4
    THEN IF a /= A_DO_NOTHING THEN -(3 * Unit) ELSE 5 * Unit
    ELSE (IF s < 3 /\ a /= A_LIGHT_UP THEN -((3 * Unit) \div 10) ELSE 0)
       + (IF s > 5 /\ a /= A_LIGHT_DOWN THEN -((3 * Unit) \div 10) ELSE 0)
       + (IF s \in {0, 3, 6} /\ a /= A_TEMP_UP THEN -((3 * Unit) \div 10) ELSE 0)
       + (IF s \in {2, 5, 8} /\ a /= A_TEMP_DOWN THEN -((3 * Unit) \div 10) ELSE 0)

\* R_Shaping: the S4 override, else the first matching mismatch penalty
Shaping(s, a) ==
    IF s = 4
    THEN IF a /= A_DO_NOTHING THEN -(3 * Unit) ELSE 5 * Unit
    ELSE IF s < 3 /\ a = A_LIGHT_DOWN THEN -((3 * Unit) \div 10)
    ELSE IF s > 5 /\ a = A_LIGHT_UP THEN -((3 * Unit) \div 10)
    ELSE IF s \in {0, 3, 6} /\ a = A_TEMP_DOWN THEN -((3 * Unit) \div 10)
    ELSE IF s \in {2, 5, 8} /\ a = A_TEMP_UP THEN -((3 * Unit) \div 10)
    ELSE 0

\* Clamp without its lower end
Clamp_UpperOnly(x) == Min2(6 * Unit, x)

\* the final clamp of calculate_reward
Clamp(x) == Max2(-(3 * Unit), Min2(6 * Unit, x))

calculate_reward(l, t, a) ==
    Clamp(Comfort(l, t) + EnergyCost(a) + Shaping(get_state(l, t), a))

\* np.argmax of one row: the first index holding the maximum
ArgMax(row) ==
    CHOOSE a \in Actions :
        /\ \A b \in Actions : row[b] <= row[a]
        /\ \A b \in Actions : b < a => row[b] < row[a]

\* np.max of one row
RowMax(row) == row[ArgMax(row)]

\* a numpy index into an axis of n entries: a negative index counts from the end
NpIndex(i, n) == IF i < 0 THEN i + n ELSE i

\* whether numpy raises IndexError for index i into an axis of n entries
NpRaises(i, n) == i < -n \/ i >= n

\* ------------------------------------------------------------ bounds

\* iterations of run_simulation in Spec
MaxEpisodes == 3
\* iterations of the greedy-only run (SpecGreedy)
GreedyEpisodes == 50
\* steps of the greedy-only run whose draws may leave the middle of their interval
MaxOffNominal == 2
\* calls of Environment.step made in SpecEnv
MaxStepCalls == 3
\* calls of update_q_table made in SpecTrainer
MaxUpdateCalls == 3
\* calls of update_q_table made in SpecStats
MaxStatsCalls == 2

\* no limit on the steps with off-middle draws
Unlimited == 0 - 1

\* ------------------------------------------------------------ random draws

\* random.uniform(0.005, 0.05)
NoiseLow == (5 * Unit) \div 1000
NoiseHigh == (5 * Unit) \div 100
NoiseMid == (NoiseLow + NoiseHigh + 1) \div 2
NoiseDraws == {NoiseLow, NoiseMid, NoiseHigh}
\* random.uniform(0.8, 1.2)
LightDraws == {(8 * Unit) \div 10, Unit, (12 * Unit) \div 10}
\* random.uniform(0.9, 1.1)
DriftDraws == {(9 * Unit) \div 10, Unit, (11 * Unit) \div 10}
\* random.random()
RandomDraws == {0, EPSILON_DEFAULT - 1, EPSILON_DEFAULT, Unit - 1}

\* ------------------------------------------------------------ state

VARIABLES
    lux, temp, outside_temp,                    \* Environment
    Q_table, crucial_updates_count, policy_changes_count,   \* QLearningTrainer
    pc, episode, episodes, s_prev, a_prev, s_new, r, a_new, reading,  \* run_simulation
    EPSILON,                                    \* the exploration rate in force
    budget,                                     \* off-middle draw steps left
    call,                                       \* the last call and its outcome
    ncalls,                                     \* calls made by a harness
    prevIter, curIter,                          \* history: the last two iterations
    nwritten, nskipped, nsteps                  \* history: updates and steps so far

envVars == <<lux, temp, outside_temp>>
trainerVars == <<Q_table, crucial_updates_count, policy_changes_count>>
loopVars == <<pc, episode, episodes, s_prev, a_prev, s_new, r, a_new, reading>>
histVars == <<prevIter, curIter, nwritten, nskipped, nsteps>>
vars == <<envVars, trainerVars, loopVars, EPSILON, budget, call, ncalls, histVars>>

\* ------------------------------------------------------------ Environment

TEMP_DRIFT_RATE == (5 * Unit) \div 100
LUX_DRIFT_RATE == 5 * Unit
NATURAL_LUX_BASE == 50 * Unit

\* StepLux without the lower bound
StepLux_NoFloor(l, action, uLight, uDrift) ==
    LET l1 == IF action = A_LIGHT_UP THEN l + 100 * uLight
              ELSE IF action = A_LIGHT_DOWN THEN l - 100 * uLight
              ELSE l
    IN  l1 - FMul(LUX_DRIFT_RATE, uDrift)

\* self.lux after step(action): action effect, drift, lower bound
StepLux(l, action, uLight, uDrift) ==
    LET l1 == IF action = A_LIGHT_UP THEN l + 100 * uLight
              ELSE IF action = A_LIGHT_DOWN THEN l - 100 * uLight
              ELSE l
        l2 == l1 - FMul(LUX_DRIFT_RATE, uDrift)
    IN  Max2(l2, NATURAL_LUX_BASE)

\* self.temp after step(action): action effect, drift towards outside_temp
StepTemp(t, out, action, noise) ==
    LET t1 == IF action = A_TEMP_UP THEN t + (Unit + noise)
              ELSE IF action = A_TEMP_DOWN THEN t - (Unit + noise)
              ELSE t
        temp_difference == out - t1
    IN  t1 + FMul(temp_difference, TEMP_DRIFT_RATE)

\* the draws of one step all sit in the middle of their intervals
Nominal(noise, uLight, uDrift) ==
    noise = NoiseMid /\ uLight = Unit /\ uDrift = Unit

\* Environment.step(action) with the draws it makes
EnvStep(action, noise, uLight, uDrift) ==
    /\ Nominal(noise, uLight, uDrift) \/ budget /= 0
    /\ budget' = IF Nominal(noise, uLight, uDrift) \/ budget = Unlimited
                 THEN budget ELSE budget - 1
    /\ lux' = StepLux(lux, action, uLight, uDrift)
    /\ temp' = StepTemp(temp, outside_temp, action, noise)
    /\ UNCHANGED outside_temp
    /\ call' = [op |-> "step", args |-> <<action>>,
                result |-> <<lux', temp'>>, outcome |-> "returned"]

\* the draws step(action) makes that its result depends on: the light draw is made
\* only in the two light branches, the noise is used only in the two temp branches
StepDraws(action) ==
    {d \in NoiseDraws \X LightDraws \X DriftDraws :
        /\ action \in {A_LIGHT_UP, A_LIGHT_DOWN} \/ d[2] = Unit
        /\ action \in {A_TEMP_UP, A_TEMP_DOWN} \/ d[1] = NoiseMid}

\* ------------------------------------------------------------ QLearningTrainer

\* SeededTable without the pre-seeding
SeededTable_Unseeded == [s \in States |-> [a \in Actions |-> 0]]

\* SeededTable with the seed written to the wrong action of S4
SeededTable_WrongAction ==
    [s \in States |-> [a \in Actions |->
        IF s = 4 /\ a = A_LIGHT_UP THEN 10 * Unit ELSE 0]]

\* the table QLearningTrainer.__init__ builds: zeros, Q(S4, IDLE) pre-seeded
SeededTable ==
    [s \in States |-> [a \in Actions |->
        IF s = 4 /\ a = A_DO_NOTHING THEN 10 * Unit ELSE 0]]

\* max_q with the row minimum in place of the maximum
max_q_AsMin(q, sn) ==
    LET row == q[NpIndex(sn, STATE_SPACE_SIZE)]
    IN  CHOOSE m \in {row[b] : b \in Actions} : \A b \in Actions : m <= row[b]

\* max_q(s_new) on table q
max_q(q, sn) == RowMax(q[NpIndex(sn, STATE_SPACE_SIZE)])

\* Skips testing s_prev alone
Skips_StateOnly(s, a) == s < 0

\* the early return of update_q_table
Skips(s, a) == s < 0 \/ a < 0

\* the reads of update_q_table that raise IndexError
UpdateRaises(s, a, sn) ==
    \/ NpRaises(s, STATE_SPACE_SIZE)
    \/ NpRaises(a, ACTION_SPACE_SIZE)
    \/ NpRaises(sn, STATE_SPACE_SIZE)

\* td_error = r + GAMMA * max_q(s_new) - Q(s_prev, a_prev)
TdError(q, s, a, rr, sn) ==
    LET old_q == q[NpIndex(s, STATE_SPACE_SIZE)][NpIndex(a, ACTION_SPACE_SIZE)]
        target_q == rr + FMul(GAMMA, max_q(q, sn))
    IN  target_q - old_q

\* UpdatedTable assigning the new value to the whole row of s_prev
UpdatedTable_WholeRow(q, s, a, rr, sn) ==
    LET si == NpIndex(s, STATE_SPACE_SIZE)
        ai == NpIndex(a, ACTION_SPACE_SIZE)
        new_q == q[si][ai] + FMul(ALPHA, TdError(q, s, a, rr, sn))
    IN  [q EXCEPT ![si] = [b \in Actions |-> new_q]]

\* the table after Q(s_prev, a_prev) <- old_q + ALPHA * td_error
UpdatedTable(q, s, a, rr, sn) ==
    LET si == NpIndex(s, STATE_SPACE_SIZE)
        ai == NpIndex(a, ACTION_SPACE_SIZE)
        new_q == q[si][ai] + FMul(ALPHA, TdError(q, s, a, rr, sn))
    IN  [q EXCEPT ![si][ai] = new_q]

\* IsCrucial without the absolute value
IsCrucial_Signed(td) == td > CRUCIAL_TD_THRESHOLD

\* the "crucial update" test: abs(td_error) > CRUCIAL_TD_THRESHOLD
IsCrucial(td) == Abs(td) > CRUCIAL_TD_THRESHOLD

\* QLearningTrainer.update_q_table(s_prev, a_prev, r, s_new)
update_q_table(s, a, rr, sn) ==
    IF Skips(s, a)
    THEN /\ UNCHANGED trainerVars
         /\ call' = [op |-> "update", args |-> <<s, a, rr, sn>>,
                     result |-> <<>>, outcome |-> "skipped"]
    ELSE IF UpdateRaises(s, a, sn)
    THEN /\ UNCHANGED trainerVars
         /\ call' = [op |-> "update", args |-> <<s, a, rr, sn>>,
                     result |-> <<>>, outcome |-> "IndexError"]
    ELSE LET si == NpIndex(s, STATE_SPACE_SIZE)
             old_best_action == ArgMax(Q_table[si])
             td_error == TdError(Q_table, s, a, rr, sn)
             q2 == UpdatedTable(Q_table, s, a, rr, sn)
             new_best_action == ArgMax(q2[si])
         IN  /\ Q_table' = q2
             /\ crucial_updates_count' =
                    IF IsCrucial(td_error)
                    THEN crucial_updates_count + 1 ELSE crucial_updates_count
             /\ policy_changes_count' =
                    IF old_best_action /= new_best_action
                    THEN policy_changes_count + 1 ELSE policy_changes_count
             /\ call' = [op |-> "update", args |-> <<s, a, rr, sn>>,
                         result |-> <<td_error, old_best_action, new_best_action>>,
                         outcome |-> "written"]

\* ------------------------------------------------------------ run_simulation

\* choose_action(q_table, s) with the value u of random.random()
choose_action(q, s, u) ==
    IF u < EPSILON THEN Actions ELSE {ArgMax(q[s])}

\* history: no iteration yet
NoIter == [lux |-> 0, temp |-> 0, s |-> NONE, a |-> NONE, nsteps |-> 0]

\* construction: QLearningTrainer(), Environment(80.0, 16.0, 20.0), s_prev = a_prev = -1
InitRun ==
    /\ lux = 80 * Unit
    /\ temp = 16 * Unit
    /\ outside_temp = 20 * Unit
    /\ Q_table = SeededTable
    /\ crucial_updates_count = 0
    /\ policy_changes_count = 0
    /\ pc = "sense"
    /\ episode = 0
    /\ s_prev = NONE
    /\ a_prev = NONE
    /\ s_new = NONE
    /\ r = 0
    /\ a_new = NONE
    /\ reading = <<80 * Unit, 16 * Unit>>
    /\ call = [op |-> "init", args |-> <<>>, result |-> <<>>, outcome |-> "returned"]
    /\ ncalls = 0
    /\ prevIter = NoIter
    /\ curIter = NoIter
    /\ nwritten = 0
    /\ nskipped = 0
    /\ nsteps = 0

\* 1. SENSE: lux, temp = env.lux, env.temp; s_new = get_state(lux, temp)
Sense ==
    /\ pc = "sense"
    /\ episode < episodes
    /\ reading' = <<lux, temp>>
    /\ s_new' = get_state(lux, temp)
    /\ prevIter' = curIter
    /\ curIter' = [lux |-> lux, temp |-> temp, s |-> get_state(lux, temp),
                   a |-> NONE, nsteps |-> nsteps]
    /\ pc' = "reward"
    /\ call' = [op |-> "get_state", args |-> <<lux, temp>>,
                result |-> <<get_state(lux, temp)>>, outcome |-> "returned"]
    /\ UNCHANGED <<envVars, trainerVars, episode, episodes, s_prev, a_prev, r, a_new,
                   EPSILON, budget, ncalls, nwritten, nskipped, nsteps>>

\* 2. REWARD: r = calculate_reward(lux, temp, a_prev)
Reward ==
    /\ pc = "reward"
    /\ r' = calculate_reward(reading[1], reading[2], a_prev)
    /\ pc' = "learn"
    /\ call' = [op |-> "calculate_reward", args |-> <<reading[1], reading[2], a_prev>>,
                result |-> <<r'>>, outcome |-> "returned"]
    /\ UNCHANGED <<envVars, trainerVars, episode, episodes, s_prev, a_prev, s_new, a_new,
                   reading, EPSILON, budget, ncalls, histVars>>

\* 3. LEARN: trainer.update_q_table(s_prev, a_prev, r, s_new)
Learn ==
    /\ pc = "learn"
    /\ update_q_table(s_prev, a_prev, r, s_new)
    /\ pc' = IF call'.outcome = "IndexError" THEN "crashed" ELSE "act"
    /\ nwritten' = IF call'.outcome = "written" THEN nwritten + 1 ELSE nwritten
    /\ nskipped' = IF call'.outcome = "skipped" THEN nskipped + 1 ELSE nskipped
    /\ UNCHANGED <<envVars, episode, episodes, s_prev, a_prev, s_new, r, a_new, reading,
                   EPSILON, budget, ncalls, prevIter, curIter, nsteps>>

\* 4. ACTION: a_new = choose_action(trainer.Q_table, s_new)
Act ==
    /\ pc = "act"
    /\ \E u \in RandomDraws :
        \E a \in choose_action(Q_table, s_new, u) :
            /\ a_new' = a
            /\ curIter' = [curIter EXCEPT !.a = a]
            /\ call' = [op |-> "choose_action", args |-> <<s_new>>,
                        result |-> <<a>>, outcome |-> "returned"]
    /\ pc' = "execute"
    /\ UNCHANGED <<envVars, trainerVars, episode, episodes, s_prev, a_prev, s_new, r,
                   reading, EPSILON, budget, ncalls, prevIter, nwritten, nskipped, nsteps>>

\* 5. EXECUTE: env.step(a_new)
Execute ==
    /\ pc = "execute"
    /\ \E d \in StepDraws(a_new) : EnvStep(a_new, d[1], d[2], d[3])
    /\ nsteps' = nsteps + 1
    /\ pc' = "shift"
    /\ UNCHANGED <<trainerVars, episode, episodes, s_prev, a_prev, s_new, r, a_new,
                   reading, EPSILON, ncalls, prevIter, curIter, nwritten, nskipped>>

\* ShiftAction keeping the stale previous action
ShiftAction_Stale(prev, new) == prev

\* the previous action the next iteration works with
ShiftAction(prev, new) == new

\* 6. SHIFT: s_prev = s_new; a_prev = a_new; the loop counter advances
Shift ==
    /\ pc = "shift"
    /\ s_prev' = s_new
    /\ a_prev' = ShiftAction(a_prev, a_new)
    /\ episode' = episode + 1
    /\ pc' = "sense"
    /\ UNCHANGED <<envVars, trainerVars, episodes, s_new, r, a_new, reading,
                   EPSILON, budget, call, ncalls, histVars>>

\* the loop is over: the final S4 check, the table and the counters are returned
Finish ==
    /\ pc = "sense"
    /\ episode = episodes
    /\ pc' = "done"
    /\ call' = [op |-> "run_simulation", args |-> <<episodes>>,
                result |-> <<ArgMax(Q_table[4]), crucial_updates_count,
                             policy_changes_count>>,
                outcome |-> "returned"]
    /\ UNCHANGED <<envVars, trainerVars, episode, episodes, s_prev, a_prev, s_new, r,
                   a_new, reading, EPSILON, budget, ncalls, histVars>>

LoopNext == Sense \/ Reward \/ Learn \/ Act \/ Execute \/ Shift \/ Finish

\* run_simulation(MaxEpisodes) with EPSILON = 0.2 and every draw free
Init ==
    /\ InitRun
    /\ episodes = MaxEpisodes
    /\ EPSILON = EPSILON_DEFAULT
    /\ budget = Unlimited

Next == LoopNext

Spec == Init /\ [][Next]_vars

\* run_simulation(GreedyEpisodes) with EPSILON = 0
InitGreedy ==
    /\ InitRun
    /\ episodes = GreedyEpisodes
    /\ EPSILON = 0
    /\ budget = MaxOffNominal

SpecGreedy == InitGreedy /\ [][LoopNext]_vars

\* ------------------------------------------------------------ direct calls

\* readings the pure functions are called with: the bin boundaries, their
\* neighbours, the target, and readings far enough away to reach the lower clamp
LuxSamples ==
    {0, 50 * Unit, LUX_BIN_LOW_MAX - 1, LUX_BIN_LOW_MAX, LUX_BIN_LOW_MAX + 1,
     TARGET_LUX, 350 * Unit, LUX_BIN_HIGH_MIN - 1, LUX_BIN_HIGH_MIN,
     LUX_BIN_HIGH_MIN + 1, 5000 * Unit, 40000 * Unit}

TempSamples ==
    {-(20 * Unit), 16 * Unit, TEMP_BIN_COLD_MAX - 1, TEMP_BIN_COLD_MAX,
     TEMP_BIN_COLD_MAX + 1, TARGET_TEMP, TARGET_TEMP + Unit \div 2,
     TEMP_BIN_HOT_MIN - 1, TEMP_BIN_HOT_MIN, TEMP_BIN_HOT_MIN + 1,
     30 * Unit, 70 * Unit}

\* action arguments: the five actions, the "none" value, and an index past the end
ActionArgs == Actions \cup {NONE, ACTION_SPACE_SIZE}

\* update_q_table arguments
PrevStateArgs == {NONE, 3, 4}
PrevActionArgs == {NONE, A_LIGHT_UP, A_DO_NOTHING, ACTION_SPACE_SIZE}
RewardArgs == {-(3 * Unit), 6 * Unit}
NewStateArgs == {3, 4}

\* get_state(l, t) called directly, once
CallGetState(l, t) ==
    /\ call.op = "init"
    /\ call' = [op |-> "get_state", args |-> <<l, t>>,
                result |-> <<get_state(l, t)>>, outcome |-> "returned"]
    /\ UNCHANGED <<envVars, trainerVars, loopVars, EPSILON, budget, ncalls, histVars>>

\* calculate_reward(l, t, a) called directly, once
CallReward(l, t, a) ==
    /\ call.op = "init"
    /\ call' = [op |-> "calculate_reward", args |-> <<l, t, a>>,
                result |-> <<calculate_reward(l, t, a)>>, outcome |-> "returned"]
    /\ UNCHANGED <<envVars, trainerVars, loopVars, EPSILON, budget, ncalls, histVars>>

\* env.step(a) called directly
CallStep(a) ==
    /\ ncalls < MaxStepCalls
    /\ \E d \in StepDraws(a) : EnvStep(a, d[1], d[2], d[3])
    /\ ncalls' = ncalls + 1
    /\ UNCHANGED <<trainerVars, loopVars, EPSILON, histVars>>

\* trainer.update_q_table(s, a, rr, sn) called directly
CallUpdate(s, a, rr, sn) ==
    /\ ncalls < MaxUpdateCalls
    /\ update_q_table(s, a, rr, sn)
    /\ ncalls' = ncalls + 1
    /\ UNCHANGED <<envVars, loopVars, EPSILON, budget, histVars>>

PureNext ==
    \/ \E l \in LuxSamples, t \in TempSamples : CallGetState(l, t)
    \/ \E l \in LuxSamples, t \in TempSamples, a \in ActionArgs : CallReward(l, t, a)

EnvNext == \E a \in ActionArgs : CallStep(a)

TrainerNext ==
    \E s \in PrevStateArgs, a \in PrevActionArgs, rr \in RewardArgs, sn \in NewStateArgs :
        CallUpdate(s, a, rr, sn)

\* rewards for the statistics: RewardArgs and 1.0, the crucial-update threshold
StatsRewardArgs == RewardArgs \cup {-(1 * Unit), 1 * Unit}

\* trainer.update_q_table(s, a, rr, sn) called directly, for the statistics
CallUpdateStats(s, a, rr, sn) ==
    /\ ncalls < MaxStatsCalls
    /\ update_q_table(s, a, rr, sn)
    /\ ncalls' = ncalls + 1
    /\ UNCHANGED <<envVars, loopVars, EPSILON, budget, histVars>>

StatsNext ==
    \E s \in PrevStateArgs, a \in PrevActionArgs, rr \in StatsRewardArgs,
       sn \in NewStateArgs :
        CallUpdateStats(s, a, rr, sn)

\* a fresh QLearningTrainer updated with transitions whose rewards reach the
\* crucial-update threshold from both sides
SpecStats == Init /\ [][StatsNext]_vars

\* the pure functions called with any sample reading and action
SpecPure == Init /\ [][PureNext]_vars

\* a fresh Environment(80.0, 16.0, 20.0) stepped with any actions and draws
SpecEnv == Init /\ [][EnvNext]_vars

\* a fresh QLearningTrainer updated with any transitions
SpecTrainer == Init /\ [][TrainerNext]_vars

\* ------------------------------------------------------------ properties

\* 1 / ALPHA, a whole number
InvAlpha == Unit \div ALPHA

\* the maximum of row sn of table q, stated without ArgMax
IsRowMax(q, sn, m) ==
    /\ \E b \in Actions : q[sn][b] = m
    /\ \A b \in Actions : q[sn][b] <= m

\* C1 (Bellman correctness): a written update(s, a, r, s') leaves in Q(s, a) the
\* value old + ALPHA * (r + GAMMA * max_a' Q(s', a') - old), to within one
\* thousandth, where old and the maximum are read from the table before the write.
\* Scaled by Unit / ALPHA to stay in whole numbers.
C1_Bellman ==
    [][(call'.op = "update" /\ call'.outcome = "written") =>
        LET s == call'.args[1]
            a == call'.args[2]
            rr == call'.args[3]
            sn == call'.args[4]
            old == Q_table[s][a]
        IN  \E m \in {Q_table[sn][b] : b \in Actions} :
                /\ IsRowMax(Q_table, sn, m)
                /\ Abs(InvAlpha * Unit * Q_table'[s][a]
                       - ((InvAlpha - 1) * Unit * old + Unit * rr + GAMMA * m))
                   < InvAlpha * Unit]_vars

\* C1 witness: update(4, IDLE, 6.0, 4) on the seeded table, where s' = s and the
\* written entry is the row maximum: 10 + 0.05 * (6 + 0.85 * 10 - 10) = 10.225
C1_Witness ==
    /\ call.op = "update"
    /\ call.outcome = "written"
    /\ call.args = <<4, A_DO_NOTHING, 6 * Unit, 4>>
    /\ ncalls = 1
    /\ Q_table[4][A_DO_NOTHING] = 10225

\* C2 (update no-op): an update whose prev_state or prev_action is the "none"
\* value changes no table entry and neither counter, whatever r and new_state.
C2_NoOp ==
    [][(call'.op = "update" /\ (call'.args[1] = NONE \/ call'.args[2] = NONE)) =>
        /\ Q_table' = Q_table
        /\ crucial_updates_count' = crucial_updates_count
        /\ policy_changes_count' = policy_changes_count]_vars

\* C2 witness: a skipped update on a table that earlier updates have changed
C2_Witness ==
    /\ call.op = "update"
    /\ call.outcome = "skipped"
    /\ call.args[1] = 3
    /\ call.args[2] = NONE
    /\ Q_table /= SeededTable
    /\ crucial_updates_count > 0

C4_Clamped ==
    call.op = "calculate_reward" =>
        /\ call.result[1] >= -(3 * Unit)
        /\ call.result[1] <= 6 * Unit

\* C4 witness: a reward that the clamp cut: at lux = 300.0, temp = 70.0 after
\* LIGHT_UP the sum is 1.0 - 4.9 - 0.2 before the clamp
C4_Witness ==
    /\ call.op = "calculate_reward"
    /\ call.args = <<300 * Unit, 70 * Unit, A_LIGHT_UP>>
    /\ call.result = <<-(3 * Unit)>>

C6_Seeding ==
    call.op = "init" =>
        /\ \A s \in 0 .. 8 : \A a \in 0 .. 4 :
              Q_table[s][a] = IF s = 4 /\ a = 4 THEN 10 * Unit ELSE 0
        /\ DOMAIN Q_table = 0 .. 8
        /\ \A s \in 0 .. 8 : DOMAIN Q_table[s] = 0 .. 4
        /\ crucial_updates_count = 0
        /\ policy_changes_count = 0
        /\ ArgMax(Q_table[4]) = A_DO_NOTHING

\* C6 witness: the state right after construction, before the first iteration
C6_Witness ==
    /\ call.op = "init"
    /\ pc = "sense"
    /\ episode = 0
    /\ Q_table[4][A_DO_NOTHING] = 10 * Unit

\* C7 (floor enforcement): lux is at least 50.0 after any sequence of steps.
C7_LuxFloor == lux >= 50 * Unit

\* C7 witness: LIGHT_DOWN took lux below the floor and the step returned the floor
C7_Witness ==
    /\ call.op = "step"
    /\ call.args = <<A_LIGHT_DOWN>>
    /\ ncalls >= 1
    /\ lux = 50 * Unit

\* C8 (S4 dominance): at the target reading the reward after IDLE exceeds the
\* reward after any other previous action by at least 3.0.
C8_S4Dominance ==
    (call.op = "calculate_reward" /\ call.args = <<300 * Unit, 21 * Unit, A_DO_NOTHING>>) =>
        \A a \in (Actions \ {A_DO_NOTHING}) \cup {NONE} :
            call.result[1] - calculate_reward(300 * Unit, 21 * Unit, a) >= 3 * Unit

\* C8 witness: the two rewards the claim names: IDLE at the target was computed,
\* and LIGHT_UP at the target gives 1.0 - 0.2 - 3.0
C8_Witness ==
    /\ call.op = "calculate_reward"
    /\ call.args = <<300 * Unit, 21 * Unit, A_DO_NOTHING>>
    /\ get_state(call.args[1], call.args[2]) = 4
    /\ calculate_reward(300 * Unit, 21 * Unit, A_LIGHT_UP) = -2200

\* C9 (fail-fast on invalid actions): step or update called with an action index
\* that is neither one of the five actions nor the "none" value ends in an error
\* and leaves the reading and the table unchanged.
C9_FailFast ==
    [][(/\ call'.op \in {"step", "update"}
        /\ LET a == IF call'.op = "step" THEN call'.args[1] ELSE call'.args[2]
           IN  a \notin Actions \cup {NONE}) =>
        /\ call'.outcome = "IndexError"
        /\ lux' = lux
        /\ temp' = temp
        /\ Q_table' = Q_table]_vars

\* C9 for update alone, which the code does satisfy for an index past the end
C9_UpdateRaises ==
    (call.op = "update" /\ call.args[2] = ACTION_SPACE_SIZE /\ call.args[1] /= NONE) =>
        call.outcome = "IndexError"

\* C10 (one-step memory and ordering): the update of iteration 1 is skipped; the
\* update of every later iteration k is written, with the state sensed and the
\* action chosen in iteration k-1, the state sensed in iteration k before any step
\* of iteration k, and the reward of iteration k's reading and iteration k-1's
\* action; every iteration makes one update and one step, and the loop ends after
\* exactly `episodes` iterations.
C10_OneStepMemory ==
    LET learnt == IF pc \in {"act", "execute", "shift"} THEN episode + 1 ELSE episode
        stepped == IF pc = "shift" THEN episode + 1 ELSE episode
    IN  /\ nwritten + nskipped = learnt
        /\ nskipped = (IF learnt >= 1 THEN 1 ELSE 0)
        /\ nsteps = stepped
        /\ episode <= episodes
        /\ pc = "done" => episode = episodes /\ nsteps = episodes
        /\ pc = "act" =>
            /\ call.op = "update"
            /\ call.outcome = (IF episode = 0 THEN "skipped" ELSE "written")
            /\ call.args[1] = prevIter.s
            /\ call.args[2] = prevIter.a
            /\ call.args[3] = calculate_reward(curIter.lux, curIter.temp, prevIter.a)
            /\ call.args[4] = curIter.s
            /\ curIter.nsteps = episode
            /\ prevIter.nsteps = (IF episode = 0 THEN 0 ELSE episode - 1)
            /\ curIter.s = get_state(lux, temp)
            /\ curIter.lux = lux /\ curIter.temp = temp

\* C10 witness: the run is over; its last update was written with the action of
\* the iteration before, here an explored one differing from the greedy choice
C10_Witness ==
    /\ pc = "done"
    /\ episode = MaxEpisodes
    /\ nwritten = MaxEpisodes - 1
    /\ nskipped = 1
    /\ nsteps = MaxEpisodes
    /\ prevIter.a = A_TEMP_DOWN
    /\ curIter.a = A_LIGHT_DOWN

\* C11 (statistics events): a written update adds one to the crucial-update
\* counter exactly when |td_error| > 1.0 and one to the policy-change counter
\* exactly when best_action(prev_state) differs across the write; no step makes
\* either counter smaller.
C11_Statistics ==
    [][/\ crucial_updates_count' >= crucial_updates_count
       /\ policy_changes_count' >= policy_changes_count
       /\ (call'.op = "update" /\ call'.outcome = "written") =>
            LET s == call'.args[1]
                a == call'.args[2]
                rr == call'.args[3]
                sn == call'.args[4]
            IN  \E m \in {Q_table[sn][b] : b \in Actions} :
                  /\ IsRowMax(Q_table, sn, m)
                  /\ LET td == rr + RoundDiv(GAMMA * m, Unit) - Q_table[s][a]
                     IN  crucial_updates_count' - crucial_updates_count =
                            (IF td > 1 * Unit \/ td < -(1 * Unit) THEN 1 ELSE 0)
                  /\ policy_changes_count' - policy_changes_count =
                        (IF ArgMax(Q_table'[s]) /= ArgMax(Q_table[s]) THEN 1 ELSE 0)]_vars

\* C11 witness: update(3, IDLE, 1.0, 3) on the seeded table: td_error is exactly
\* 1.0, so it is not crucial, and best_action(3) moves from LIGHT_UP to IDLE
C11_Witness ==
    /\ call.op = "update"
    /\ call.outcome = "written"
    /\ call.args = <<3, A_DO_NOTHING, 1 * Unit, 3>>
    /\ call.result = <<1 * Unit, A_LIGHT_UP, A_DO_NOTHING>>
    /\ ncalls = 1
    /\ crucial_updates_count = 0
    /\ policy_changes_count = 1

\* C12: the reward's shaping contribution is exactly one of +5.0, -3.0, -0.3 or
\* 0: every reward returned is the clamp of comfort plus energy cost plus one
\* such term; the -0.3 penalty enters at most once, also in the corner states
\* 0, 2, 6 and 8 that lie in a lux zone and a temp zone, and never in state 4.
C12_OneShapingTerm ==
    (call.op = "calculate_reward") =>
        LET l == call.args[1]
            t == call.args[2]
            a == call.args[3]
            s == get_state(l, t)
            base == Comfort(l, t) + EnergyCost(a)
            mismatch == \/ s \in {0, 1, 2} /\ a = A_LIGHT_DOWN
                        \/ s \in {6, 7, 8} /\ a = A_LIGHT_UP
                        \/ s \in {0, 3, 6} /\ a = A_TEMP_DOWN
                        \/ s \in {2, 5, 8} /\ a = A_TEMP_UP
            term == IF s = 4 THEN (IF a = A_DO_NOTHING THEN 5 * Unit ELSE -(3 * Unit))
                    ELSE IF mismatch THEN -((3 * Unit) \div 10)
                    ELSE 0
        IN  /\ term \in {5 * Unit, -(3 * Unit), -((3 * Unit) \div 10), 0}
            /\ (s = 4) => term /= -((3 * Unit) \div 10)
            /\ call.result[1] = Max2(-(3 * Unit), Min2(6 * Unit, base + term))

\* state 0 is in the low-lux zone and in the cold zone; LIGHT_DOWN there is
\* charged -0.3 once
C12_Witness ==
    /\ call.op = "calculate_reward"
    /\ call.args = <<50 * Unit, 16 * Unit, A_LIGHT_DOWN>>
    /\ get_state(call.args[1], call.args[2]) = 0
    /\ call.result[1] = Comfort(50 * Unit, 16 * Unit) + ACTIVE_PENALTY - ((3 * Unit) \div 10)
    /\ call.result[1] > -(3 * Unit)

\* C13: a table entry changes only in an update that was not skipped, and then
\* only the entry (prev_state, prev_action) of that update; choose_action and
\* Environment.step change no table entry; update_q_table changes neither lux
\* nor temp.
C13_SingleEntryWrite ==
    [][/\ \A s \in States, a \in Actions :
            (Q_table'[s][a] /= Q_table[s][a]) =>
                /\ pc = "learn"
                /\ call'.op = "update"
                /\ call'.outcome = "written"
                /\ call'.args[1] = s
                /\ call'.args[2] = a
       /\ (pc \in {"act", "execute"}) =>
            /\ call'.op = IF pc = "act" THEN "choose_action" ELSE "step"
            /\ Q_table' = Q_table
       /\ (pc = "learn") =>
            /\ call'.op = "update"
            /\ lux' = lux
            /\ temp' = temp]_vars

\* after the second update written by the loop, the table differs from the
\* seeded one in the entry just written and in at most one more
C13_Witness ==
    /\ pc = "act"
    /\ call.op = "update"
    /\ call.outcome = "written"
    /\ nwritten = 2
    /\ Q_table[call.args[1]][call.args[2]] /= SeededTable[call.args[1]][call.args[2]]
    /\ Cardinality({e \in States \X Actions :
                        Q_table[e[1]][e[2]] /= SeededTable[e[1]][e[2]]}) = 2


====
